---- MODULE Spec2Model ----
(***************************************************************************)
(* Model of the metered call proxy of LedgrAPI                             *)
(* (src/app/api/v1/endpoints/apis.py, call_api) over the relational store  *)
(* (tables apis, users, api_usage, usage_logs).                            *)
(*                                                                         *)
(* Every request runs in its own AsyncSession (src/app/db/session.py,      *)
(* get_db).  The store is PostgreSQL (src/app/core/config.py:28) at its    *)
(* default isolation level, so every SELECT sees the rows committed at the *)
(* time it runs, and the flush and COMMIT of one session take effect as    *)
(* one step.  Requests interleave at the awaits of call_api: a request     *)
(* reads the usage row, waits for the upstream, and commits afterwards.    *)
(*                                                                         *)
(* Money is modelled in whole cents (the columns are documented as         *)
(* "USD cents"); the columns of usage_logs that no formula reads           *)
(* (endpoint_path, method, latency, sizes, bodies, client data) are left   *)
(* out of the records.                                                     *)
(*                                                                         *)
(* Beside call_api the module holds publish_api and the tier policy of     *)
(* User (src/app/db/models/user.py), RateLimitMiddleware                   *)
(* (src/app/core/middleware.py), and the subscription requests of          *)
(* src/app/api/v1/endpoints/billing.py and src/app/services/billing.py,    *)
(* each with a specification of its own over the same variables.           *)
(***************************************************************************)
EXTENDS Integers, Sequences, FiniteSets, TLC

\* ---------------------------------------------------------------- bounds
MaxCalls == 3          \* number of call_api requests in one behaviour
MaxFree == 2           \* largest free_calls_per_month of the stored API
MaxApis == 11          \* number of API rows after which no more are published
MaxInFlight == 2       \* publish_api requests of one user under way together
MaxBilling == 3        \* number of billing requests in one behaviour
calls_per_minute == 2  \* RateLimitMiddleware(app, calls_per_minute)
MaxTime == 120         \* time.time() after which the clock stands still

Procs == 1..MaxCalls
Users == {1, 2}                      \* user ids; 1 owns the stored API
ApiIds == {1}                        \* api_id path parameter
Tiers == {"free", "pro"}             \* current_tier of the stored users
AllTiers == {"free", "builder", "pro", "enterprise"}   \* the tiers of user.py:37
Prices == {50}                       \* price_per_call, in cents
StatusCodes == {200, 500}            \* status codes an upstream may answer
\* what the upstream sends as body: "object" stands for every response the
\* handler can hand back (a JSON object, or a content type other than JSON,
\* whose body is not parsed); "not_object" for a response announced as
\* application/json whose body is no JSON object (an array, a scalar, an
\* empty or malformed text)
Bodies == {"object", "not_object"}

\* Python's None, for an absent dictionary key or header
None == "None"
\* names of the request headers that carry a credential
HeaderNames == {"Authorization", "X-API-Key"}
\* a headers dictionary: header name -> value, None where the name is absent
NoHeaders == [n \in HeaderNames |-> None]
\* call_request.headers as a caller may send them: any subset of the
\* credential headers, each carrying the caller's own secret
CallerHeaders == [HeaderNames -> {None, "caller_secret"}]
\* API.auth_type (the column comment lists none, api_key, oauth, wallet)
AuthTypes == {"none", "api_key", "oauth"}
\* API.auth_config: the keys call_api reads, None where the key is absent;
\* NoConfig stands for a NULL column or an empty dictionary (both falsy)
NoConfig == [header_name |-> None, api_key |-> None]
AuthConfigs ==
    {NoConfig,
     [header_name |-> None, api_key |-> "configured_key"],
     [header_name |-> "X-API-Key", api_key |-> "configured_key"]}

\* outward results of a request
HTTP_200_OK == 200
HTTP_402_PAYMENT_REQUIRED == 402
HTTP_403_FORBIDDEN == 403
HTTP_404_NOT_FOUND == 404
HTTP_500_INTERNAL_SERVER_ERROR == 500
HTTP_502_BAD_GATEWAY == 502
HTTP_504_GATEWAY_TIMEOUT == 504

\* ------------------------------------------------------- rate limiting
\* request.client.host of the clients
ClientIps == {"10.0.0.1", "10.0.0.2"}
HTTP_429_TOO_MANY_REQUESTS == 429
\* length in seconds of the span in which recorded requests count
Window == 60
\* the seconds between two readings of the clock that differ
TimeStep == 20
\* the answer of dispatch: the client, the status code, and the time read
NoResponse == [client_ip |-> None, status_code |-> 0, current_time |-> 0]

\* ------------------------------------------------------------- billing
HTTP_400_BAD_REQUEST == 400
\* table subscription_tiers: tier id -> name.  The names are data (a unique
\* String(50)); one row carries a name of the tier policy and one a name
\* the policy does not list.
subscription_tiers == <<"pro", "starter">>
\* tier ids a request may carry: the stored ones and one that is not stored
TierIds == 1..3
BillingReqs == 1..MaxBilling
IdleBilling ==
    [pc |-> "idle", kind |-> None, user_id |-> 0, tier_id |-> 0,
     loaded_tier |-> None, row |-> 0, status_code |-> 0]

VARIABLES
    apis,       \* table apis: function from the stored ids to API rows
    users,      \* table users: user id -> [current_tier]
    api_usage,  \* table api_usage: sequence of committed APIUsage rows
    usage_logs, \* table usage_logs: sequence of committed UsageLog rows
    calls,      \* the call_api requests: Procs -> request record
    publishing, \* publish_api requests between the quota check and the commit,
                \* per user
    publish_status, \* status code of the last answer of publish_api, 0 at first
    now,        \* time.time(), in seconds
    requests,   \* RateLimitMiddleware.requests: client ip -> admitted times
    forwarded,  \* per client ip, the times of the requests handed to call_next
    response,   \* the last answer of RateLimitMiddleware.dispatch
    subscriptions, \* table subscriptions: sequence of committed rows
    billing     \* the billing requests: BillingReqs -> request record

publishVars == <<publishing, publish_status>>
limiterVars == <<now, requests, forwarded, response>>
billingVars == <<subscriptions, billing>>

vars == <<apis, users, api_usage, usage_logs, calls,
          publishVars, limiterVars, billingVars>>

\* no publish_api request is under way and none was answered
PublishIdle ==
    /\ publishing = [u \in Users |-> 0]
    /\ publish_status = 0

\* RateLimitMiddleware.__init__: self.requests = {}
LimiterIdle ==
    /\ now = 0
    /\ requests = <<>>
    /\ forwarded = [ip \in ClientIps |-> <<>>]
    /\ response = NoResponse

\* no subscription was ever stored and no billing request is under way
BillingIdle ==
    /\ subscriptions = <<>>
    /\ billing = [r \in BillingReqs |-> IdleBilling]

\* ---------------------------------------------------------------- helpers
RECURSIVE SumCost(_)
SumCost(s) == IF s = <<>> THEN 0 ELSE s[1].cost + SumCost(Tail(s))

SelectPair(s, u, a) == SelectSeq(s, LAMBDA r : r.user_id = u /\ r.api_id = a)

\* ids (positions) of the committed api_usage rows of a pair
UsageRowsOf(u, a) ==
    {i \in 1..Len(api_usage) : api_usage[i].user_id = u /\ api_usage[i].api_id = a}

\* variant: the list of paid tiers also names the free tier
is_premium_IncludesFree(tier) == tier \in {"free", "builder", "pro", "enterprise"}

\* User.is_premium
is_premium(tier) == tier \in {"builder", "pro", "enterprise"}

\* select(API).where(id == api_id, is_active, status == "published")
FindPublishedApi(a) ==
    a \in DOMAIN apis /\ apis[a].is_active /\ apis[a].status = "published"

\* APIUsage(user_id, api_id, 0, 0, 0.0, 0.0)
NewUsage(u, a) ==
    [user_id |-> u, api_id |-> a, calls_this_month |-> 0, calls_total |-> 0,
     cost_this_month |-> 0, cost_total |-> 0]

NoUsage == [user_id |-> 0, api_id |-> 0, calls_this_month |-> 0, calls_total |-> 0,
            cost_this_month |-> 0, cost_total |-> 0]

NoResult == [request_id |-> 0, status_code |-> 0, cost |-> 0, was_free |-> FALSE]

\* fastapi.HTTPException(status_code, detail): the whole content of an error
\* answer; an exception that is no HTTPException is answered by the server
\* with a bare 500
HTTPException(status_code, detail) == [status_code |-> status_code, detail |-> detail]

NoError == HTTPException(0, "")

IdleCall ==
    [pc |-> "idle", user_id |-> 0, api_id |-> 0, tier |-> "free",
     row |-> 0, usage |-> NoUsage, request_id |-> 0, headers |-> NoHeaders,
     body_headers |-> NoHeaders, call_request_headers |-> NoHeaders,
     outcome |-> 0, result |-> NoResult, error |-> NoError,
     disconnected |-> FALSE]

\* ---------------------------------------------------------------- state
ApiRows ==
    [owner_id : {1}, is_active : BOOLEAN, is_public : BOOLEAN,
     status : {"draft", "published"},
     price_per_call : Prices, free_calls_per_month : 0..MaxFree,
     auth_type : {"none"}, auth_config : {NoConfig}]

\* The tables apis and users are written outside call_api; a behaviour starts
\* from any content of them (no API row at all, or one row of any kind) and
\* from empty usage tables.
Init ==
    /\ apis \in [ApiIds -> ApiRows] \cup {<<>>}
    /\ users \in [Users -> [current_tier : Tiers]]
    /\ api_usage = <<>>
    /\ usage_logs = <<>>
    /\ calls = [p \in Procs |-> IdleCall]
    /\ PublishIdle
    /\ LimiterIdle
    /\ BillingIdle

\* ---------------------------------------------------------------- call_api
\* variant: the "not" in front of is_public is missing
AccessDenied_PublicOnly(api, u) == api.is_public /\ api.owner_id # u

\* "if not api.is_public and api.owner_id != current_user.id"
AccessDenied(api, u) == ~api.is_public /\ api.owner_id # u

\* variant: the access check is made on the row found by id alone, before
\* the row is required to be active and published
CheckApi_AccessFirst(a, u) ==
    IF a \in DOMAIN apis /\ ~apis[a].is_public /\ apis[a].owner_id # u
    THEN HTTP_403_FORBIDDEN
    ELSE IF ~FindPublishedApi(a) THEN HTTP_404_NOT_FOUND
    ELSE 0

\* the first two preconditions, in the order of the code; 0 = both pass
CheckApi(a, u) ==
    IF ~FindPublishedApi(a) THEN HTTP_404_NOT_FOUND
    ELSE IF AccessDenied(apis[a], u) THEN HTTP_403_FORBIDDEN
    ELSE 0

\* "if usage.calls_this_month >= api.free_calls_per_month:
\*      if not current_user.is_premium: raise 402"
QuotaRefused(usage, api, tier) ==
    usage.calls_this_month >= api.free_calls_per_month /\ ~is_premium(tier)

\* variant: the quota comparison counts the call being made
DetermineCost_CountsThisCall(usage, api) ==
    IF usage.calls_this_month + 1 >= api.free_calls_per_month
    THEN [cost |-> api.price_per_call, was_free |-> FALSE]
    ELSE [cost |-> 0, was_free |-> TRUE]

\* variant: ">" where the code has ">="
DetermineCost_StrictlyAbove(usage, api) ==
    IF usage.calls_this_month > api.free_calls_per_month
    THEN [cost |-> api.price_per_call, was_free |-> FALSE]
    ELSE [cost |-> 0, was_free |-> TRUE]

\* "Determine cost": decided on the usage object the session holds
DetermineCost(usage, api) ==
    IF usage.calls_this_month >= api.free_calls_per_month
    THEN [cost |-> api.price_per_call, was_free |-> FALSE]
    ELSE [cost |-> 0, was_free |-> TRUE]

\* "request_headers=dict(call_request.headers) if call_request.headers else
\* None": the headers the request object holds when the record is built
\* (NoHeaders stands for the stored NULL)
RequestHeadersOf(c) == c.call_request_headers

\* UsageLog(...) built after the upstream answered
UsageLogOf(c, status_code) ==
    LET d == DetermineCost(c.usage, apis[c.api_id]) IN
    [user_id |-> c.user_id, api_id |-> c.api_id, request_id |-> c.request_id,
     status_code |-> status_code, cost |-> d.cost, was_free |-> d.was_free,
     request_headers |-> RequestHeadersOf(c)]

\* variant: the response decides the cost again, on the incremented counter
CallResponse_DecidesAgain(c, status_code) ==
    LET d == DetermineCost([c.usage EXCEPT !.calls_this_month = @ + 1],
                           apis[c.api_id]) IN
    [request_id |-> c.request_id, status_code |-> status_code,
     cost |-> d.cost, was_free |-> d.was_free]

\* APICallResponse(...) returned to the caller
CallResponse(c, status_code) ==
    LET d == DetermineCost(c.usage, apis[c.api_id]) IN
    [request_id |-> c.request_id, status_code |-> status_code,
     cost |-> d.cost, was_free |-> d.was_free]

\* variant: the totals are incremented in the store ("SET calls_total =
\* calls_total + 1") while the monthly fields are written from the loaded row
UpdateUsage_TotalsInStore(table, c, cost) ==
    LET u == c.usage IN
    IF c.row = 0
    THEN Append(table, [u EXCEPT !.calls_this_month = @ + 1,
                                 !.calls_total = @ + 1,
                                 !.cost_this_month = @ + cost,
                                 !.cost_total = @ + cost])
    ELSE [table EXCEPT ![c.row] =
            [@ EXCEPT !.calls_this_month = u.calls_this_month + 1,
                      !.calls_total = @ + 1,
                      !.cost_this_month =
                          IF cost # 0 THEN u.cost_this_month + cost ELSE @,
                      !.cost_total = @ + cost]]

\* variant: the two "_total" lines of "Update usage statistics" are missing
UpdateUsage_MonthOnly(table, c, cost) ==
    LET u == c.usage IN
    IF c.row = 0
    THEN Append(table, [u EXCEPT !.calls_this_month = @ + 1,
                                 !.cost_this_month = @ + cost])
    ELSE [table EXCEPT ![c.row] =
            [@ EXCEPT !.calls_this_month = u.calls_this_month + 1,
                      !.cost_this_month =
                          IF cost # 0 THEN u.cost_this_month + cost ELSE @]]

\* "Update usage statistics" followed by the flush of the commit.  A row the
\* session created is INSERTed.  A row it loaded is UPDATEd by primary key
\* with the values computed in Python from the loaded values; the ORM puts
\* into the SET clause only the attributes whose value differs from the
\* loaded one, so "+= 0.0" leaves the stored cost columns as they are.
UpdateUsage(table, c, cost) ==
    LET u == c.usage IN
    IF c.row = 0
    THEN Append(table, [u EXCEPT !.calls_this_month = @ + 1,
                                 !.calls_total = @ + 1,
                                 !.cost_this_month = @ + cost,
                                 !.cost_total = @ + cost])
    ELSE [table EXCEPT ![c.row] =
            [@ EXCEPT !.calls_this_month = u.calls_this_month + 1,
                      !.calls_total = u.calls_total + 1,
                      !.cost_this_month =
                          IF cost # 0 THEN u.cost_this_month + cost ELSE @,
                      !.cost_total =
                          IF cost # 0 THEN u.cost_total + cost ELSE @]]

\* variant: closing the session flushes the row the handler added
Rollback_FlushesPending(table, c) ==
    IF c.row = 0 /\ c.usage.user_id # 0 THEN Append(table, c.usage) ELSE table

\* get_db when the handler raises: session.rollback() and session.close();
\* nothing the session added or changed reaches the table
Rollback(table, c) == table

\* request ids are uuid4 strings: modelled as the number of the request
NewRequestId(p) == p

\* the handler returns: the answer is 200 with the response model
Finish(c, code, res) == [c EXCEPT !.pc = "done", !.outcome = code, !.result = res]

\* the handler raises: the answer is the status and detail of the exception
Raise(c, code, detail) ==
    [c EXCEPT !.pc = "done", !.outcome = code, !.result = NoResult,
              !.error = HTTPException(code, detail)]

\* dict.get(key, default)
Get(d, key, default) == IF d[key] = None THEN default ELSE d[key]

\* "Prepare headers": the caller's headers, and for an api_key API with a
\* configuration the configured key stored under the configured name
PrepareHeaders(api, headers) ==
    IF api.auth_type = "api_key" /\ api.auth_config # NoConfig
    THEN [headers EXCEPT ![Get(api.auth_config, "header_name", "Authorization")] =
                             Get(api.auth_config, "api_key", None)]
    ELSE headers

\* call_request.headers after "Prepare headers". "headers =
\* call_request.headers or {}" binds the caller's own dictionary when it is
\* non-empty, so the assignment of the configured key writes into
\* call_request.headers; an empty or absent dictionary is replaced by a new
\* one and call_request.headers stays as sent.
AliasedHeaders(api, headers) ==
    IF headers # NoHeaders THEN PrepareHeaders(api, headers) ELSE headers

\* Requests are numbered in the order in which they arrive.
Arrived(p) == IF p = 1 THEN TRUE ELSE calls[p - 1].pc # "idle"

\* The handler from its start to the await of the upstream request:
\* get_current_user, the SELECT of the API and the access check, the SELECT
\* of the usage row, the lazy creation, the quota check, the request id.
\* The rows of users and apis it reads are written by no step of this
\* module, so the three SELECTs are taken as one step, placed at the moment
\* of the SELECT of the usage row.
CallApi(p, u, a, headers) ==
    /\ calls[p].pc = "idle"
    /\ Arrived(p)
    /\ LET c == [calls[p] EXCEPT !.user_id = u, !.api_id = a,
                                 !.tier = users[u].current_tier,
                                 !.body_headers = headers,
                                 !.call_request_headers = headers]
           code == CheckApi(a, u)
           rows == UsageRowsOf(u, a)
       IN IF code # 0
          THEN /\ calls' = [calls EXCEPT ![p] =
                              Raise(c, code,
                                    IF code = HTTP_404_NOT_FOUND
                                    THEN "API not found or not published"
                                    ELSE "Access denied to this API")]
               /\ api_usage' = api_usage
          ELSE IF Cardinality(rows) > 1
          THEN \* scalar_one_or_none() raises MultipleResultsFound
               /\ calls' = [calls EXCEPT ![p] =
                              Raise(c, HTTP_500_INTERNAL_SERVER_ERROR,
                                    "Internal Server Error")]
               /\ api_usage' = Rollback(api_usage, c)
          ELSE LET r == IF rows = {} THEN 0 ELSE CHOOSE i \in rows : TRUE
                   usage == IF r = 0 THEN NewUsage(u, a) ELSE api_usage[r]
                   d == [c EXCEPT !.row = r, !.usage = usage]
               IN IF QuotaRefused(usage, apis[a], c.tier)
                  THEN /\ calls' = [calls EXCEPT ![p] =
                                      Raise(d, HTTP_402_PAYMENT_REQUIRED,
                                            "Monthly free call limit exceeded. Upgrade to continue.")]
                       /\ api_usage' = Rollback(api_usage, d)
                  ELSE /\ calls' = [calls EXCEPT ![p] =
                                      [d EXCEPT !.pc = "upstream",
                                                !.request_id = NewRequestId(p),
                                                !.headers =
                                                    PrepareHeaders(apis[a], headers),
                                                !.call_request_headers =
                                                    AliasedHeaders(apis[a], headers)]]
                       /\ api_usage' = api_usage
    /\ UNCHANGED <<apis, users, usage_logs>>
    /\ UNCHANGED <<publishVars, limiterVars, billingVars>>

\* "data=response.json() if content-type starts with application/json":
\* response.json() raises on a malformed body, and APICallResponse, whose
\* data field is Optional[Dict[str, Any]], rejects a parsed value that is
\* no object; either exception leaves the handler after the commit
ResponseReturnable(body) == body = "object"

\* variant: one audit row per pair, replaced by the latest call
AddLog_LatestPerPair(logs, log) ==
    Append(SelectSeq(logs, LAMBDA r : ~(r.user_id = log.user_id /\ r.api_id = log.api_id)),
           log)

\* "db.add(usage_log)" and its INSERT at the commit: a new row of usage_logs
AddLog(logs, log) == Append(logs, log)

\* the upstream answered with some status: log, count, commit, respond
UpstreamResponse(p, status_code, body) ==
    /\ calls[p].pc = "upstream"
    /\ LET c == calls[p]
           log == UsageLogOf(c, status_code)
       IN /\ usage_logs' = AddLog(usage_logs, log)
          /\ api_usage' = UpdateUsage(api_usage, c, log.cost)
          /\ calls' = [calls EXCEPT ![p] =
                         IF ResponseReturnable(body)
                         THEN Finish(c, HTTP_200_OK, CallResponse(c, status_code))
                         ELSE Raise(c, HTTP_500_INTERNAL_SERVER_ERROR,
                                    "Internal Server Error")]
    /\ UNCHANGED <<apis, users>>
    /\ UNCHANGED <<publishVars, limiterVars, billingVars>>

\* variant: the audit record is written on its own and survives the failure
AbortedCommit_KeepsLog(logs, log) == Append(logs, log)

\* "await db.commit()" raises: the INSERT of the audit record and the write
\* of the usage row belong to the one transaction of the session, which is
\* rolled back as a whole
AbortedCommit(logs, log) == logs

\* the upstream answered but the commit raises (connection lost, statement
\* refused): the exception is none of the two the handler catches, get_db
\* rolls the session back and the caller is answered 500
CommitFailure(p, status_code) ==
    /\ calls[p].pc = "upstream"
    /\ calls' = [calls EXCEPT ![p] =
                   Raise(calls[p], HTTP_500_INTERNAL_SERVER_ERROR,
                         "Internal Server Error")]
    /\ usage_logs' = AbortedCommit(usage_logs, UsageLogOf(calls[p], status_code))
    /\ api_usage' = Rollback(api_usage, calls[p])
    /\ UNCHANGED <<apis, users>>
    /\ UNCHANGED <<publishVars, limiterVars, billingVars>>

\* except httpx.TimeoutException: 504; the session is rolled back
UpstreamTimeout(p) ==
    /\ calls[p].pc = "upstream"
    /\ calls' = [calls EXCEPT ![p] =
                   Raise(calls[p], HTTP_504_GATEWAY_TIMEOUT, "API call timed out")]
    /\ api_usage' = Rollback(api_usage, calls[p])
    /\ UNCHANGED <<apis, users, usage_logs>>
    /\ UNCHANGED <<publishVars, limiterVars, billingVars>>

\* except httpx.RequestError: 502; the session is rolled back
UpstreamRequestError(p) ==
    /\ calls[p].pc = "upstream"
    /\ calls' = [calls EXCEPT ![p] =
                   Raise(calls[p], HTTP_502_BAD_GATEWAY, "Error calling API: str(e)")]
    /\ api_usage' = Rollback(api_usage, calls[p])
    /\ UNCHANGED <<apis, users, usage_logs>>
    /\ UNCHANGED <<publishVars, limiterVars, billingVars>>

\* In Spec the stored API asks for no credential and the callers send no
\* credential header; SpecAuth below varies both.
Next ==
    \/ \E p \in Procs, u \in Users, a \in ApiIds : CallApi(p, u, a, NoHeaders)
    \/ \E p \in Procs, s \in StatusCodes, b \in Bodies : UpstreamResponse(p, s, b)
    \/ \E p \in Procs, s \in StatusCodes : CommitFailure(p, s)
    \/ \E p \in Procs : UpstreamTimeout(p)
    \/ \E p \in Procs : UpstreamRequestError(p)

Spec == Init /\ [][Next]_vars

\* ------------------------------------------------- requests one at a time
NoneInFlight == \A q \in Procs : calls[q].pc \in {"idle", "done"}

NextSeq ==
    \/ \E p \in Procs, u \in Users, a \in ApiIds :
          NoneInFlight /\ CallApi(p, u, a, NoHeaders)
    \/ \E p \in Procs, s \in StatusCodes, b \in Bodies : UpstreamResponse(p, s, b)
    \/ \E p \in Procs, s \in StatusCodes : CommitFailure(p, s)
    \/ \E p \in Procs : UpstreamTimeout(p)
    \/ \E p \in Procs : UpstreamRequestError(p)

SpecSeq == Init /\ [][NextSeq]_vars

\* ------------------------------------------------ upstream credentials
\* a published, public API of any auth scheme and configuration
AuthApiRows ==
    [owner_id : {1}, is_active : {TRUE}, is_public : {TRUE},
     status : {"published"},
     price_per_call : Prices, free_calls_per_month : {MaxFree},
     auth_type : AuthTypes, auth_config : AuthConfigs]

InitAuth ==
    /\ apis \in [ApiIds -> AuthApiRows]
    /\ users = [u \in Users |-> [current_tier |-> "pro"]]
    /\ api_usage = <<>>
    /\ usage_logs = <<>>
    /\ calls = [p \in Procs |-> IdleCall]
    /\ PublishIdle
    /\ LimiterIdle
    /\ BillingIdle

\* the requests of one consumer (user 2, with paid standing), one at a
\* time, with any credential headers
NextAuth ==
    \/ \E p \in Procs, a \in ApiIds, h \in CallerHeaders :
          NoneInFlight /\ CallApi(p, 2, a, h)
    \/ \E p \in Procs, s \in StatusCodes, b \in Bodies : UpstreamResponse(p, s, b)
    \/ \E p \in Procs, s \in StatusCodes : CommitFailure(p, s)
    \/ \E p \in Procs : UpstreamTimeout(p)
    \/ \E p \in Procs : UpstreamRequestError(p)

SpecAuth == InitAuth /\ [][NextAuth]_vars

\* ---------------------------------------------------------- tier policy
\* variant: the quota of the pro tier is typed as 1 instead of 10
can_publish_apis_ProQuotaOne(tier, owned) ==
    IF tier = "free" THEN owned < 1
    ELSE IF tier = "builder" THEN owned < 3
    ELSE IF tier = "pro" THEN owned < 1
    ELSE TRUE

\* User.can_publish_apis; owned is len(self.apis)
can_publish_apis(tier, owned) ==
    IF tier = "free" THEN owned < 1
    ELSE IF tier = "builder" THEN owned < 3
    ELSE IF tier = "pro" THEN owned < 10
    ELSE TRUE

\* variant: a name the table does not list gets the highest limit
get_rate_limit_UnknownAsEnterprise(tier) ==
    CASE tier = "free" -> 60
      [] tier = "builder" -> 300
      [] tier = "pro" -> 1000
      [] tier = "enterprise" -> 5000
      [] OTHER -> 5000

\* User.get_rate_limit: limits.get(self.current_tier, 60)
get_rate_limit(tier) ==
    CASE tier = "free" -> 60
      [] tier = "builder" -> 300
      [] tier = "pro" -> 1000
      [] tier = "enterprise" -> 5000
      [] OTHER -> 60

\* len(user.apis): the rows of apis the user owns, whatever their status
OwnedApis(u) == Cardinality({i \in DOMAIN apis : apis[i].owner_id = u})

\* variant: the new API is stored as published
NewApi_Published(u) ==
    [owner_id |-> u, is_active |-> TRUE, is_public |-> FALSE, status |-> "published",
     price_per_call |-> 50, free_calls_per_month |-> 0,
     auth_type |-> "none", auth_config |-> NoConfig]

\* API(...) as publish_api builds it from the request; status, is_active and
\* is_public take the defaults of the columns
NewApi(u) ==
    [owner_id |-> u, is_active |-> TRUE, is_public |-> FALSE, status |-> "draft",
     price_per_call |-> 50, free_calls_per_month |-> 0,
     auth_type |-> "none", auth_config |-> NoConfig]

\* the branches of can_publish_apis that evaluate len(self.apis)
LoadsApis(tier) == tier \in {"free", "builder", "pro"}

\* the number of APIs that the requests under way will still store
TotalPublishing == publishing[1] + publishing[2]

NonePublishing == \A u \in Users : publishing[u] = 0

\* publish_api from its start to "await db.commit()": get_current_user,
\* the quota check on the rows of apis committed at that moment, 403 when
\* the tier allows no more APIs, otherwise the new API is added to the
\* session and the request waits for its commit
publish_api(u) ==
    /\ publishing[u] < MaxInFlight
    /\ Len(apis) + TotalPublishing < MaxApis
    /\ IF can_publish_apis(users[u].current_tier, OwnedApis(u))
       THEN /\ publishing' = [publishing EXCEPT ![u] = @ + 1]
            /\ publish_status' = publish_status
       ELSE /\ publishing' = publishing
            /\ publish_status' = HTTP_403_FORBIDDEN
    /\ UNCHANGED <<apis, users, api_usage, usage_logs, calls>>
    /\ UNCHANGED <<limiterVars, billingVars>>

\* "await db.commit()" of publish_api: the INSERT of the new row, then the
\* answer
CommitApi(u) ==
    /\ publishing[u] > 0
    /\ apis' = Append(apis, NewApi(u))
    /\ publishing' = [publishing EXCEPT ![u] = @ - 1]
    /\ publish_status' = HTTP_200_OK
    /\ UNCHANGED <<users, api_usage, usage_logs, calls>>
    /\ UNCHANGED <<limiterVars, billingVars>>

\* len(self.apis) loads the relationship of a User that get_current_user
\* selected without it.  The load is issued from a property, outside any
\* await of the AsyncSession; where the session cannot run it there it
\* raises (MissingGreenlet), the request ends with 500 and stores nothing.
\* Both outcomes of the load are kept: this step, or the count used by
\* publish_api.
LoadApisFails(u) ==
    /\ LoadsApis(users[u].current_tier)
    /\ publish_status' = HTTP_500_INTERNAL_SERVER_ERROR
    /\ UNCHANGED <<apis, users, api_usage, usage_logs, calls, publishing>>
    /\ UNCHANGED <<limiterVars, billingVars>>

\* users of any tier, no API yet
InitPublish ==
    /\ apis = <<>>
    /\ users \in [Users -> [current_tier : AllTiers]]
    /\ api_usage = <<>>
    /\ usage_logs = <<>>
    /\ calls = [p \in Procs |-> IdleCall]
    /\ PublishIdle
    /\ LimiterIdle
    /\ BillingIdle

\* the publish_api requests one at a time
NextPublish ==
    \/ \E u \in Users : NonePublishing /\ publish_api(u)
    \/ \E u \in Users : CommitApi(u)
    \/ \E u \in Users : NonePublishing /\ LoadApisFails(u)

SpecPublish == InitPublish /\ [][NextPublish]_vars

\* users of the two lowest tiers, no API yet
InitPublishRace ==
    /\ apis = <<>>
    /\ users \in [Users -> [current_tier : {"free", "builder"}]]
    /\ api_usage = <<>>
    /\ usage_logs = <<>>
    /\ calls = [p \in Procs |-> IdleCall]
    /\ PublishIdle
    /\ LimiterIdle
    /\ BillingIdle

\* publish_api requests in any interleaving
NextPublishRace ==
    \/ \E u \in Users : publish_api(u)
    \/ \E u \in Users : CommitApi(u)
    \/ \E u \in Users : LoadApisFails(u)

SpecPublishRace == InitPublishRace /\ [][NextPublishRace]_vars

\* ------------------------------------------ publishing and calling
\* no API yet; users of the default tier publish APIs and call APIs through
\* the endpoints
InitMarket ==
    /\ apis = <<>>
    /\ users = [u \in Users |-> [current_tier |-> "free"]]
    /\ api_usage = <<>>
    /\ usage_logs = <<>>
    /\ calls = [p \in Procs |-> IdleCall]
    /\ PublishIdle
    /\ LimiterIdle
    /\ BillingIdle

\* publish_api in any interleaving, and call_api of any user for every
\* stored API id and for one id that is not stored
NextMarket ==
    \/ \E u \in Users : publish_api(u)
    \/ \E u \in Users : CommitApi(u)
    \/ \E u \in Users : LoadApisFails(u)
    \/ \E p \in Procs, u \in Users, a \in 1..(Len(apis) + 1) :
          CallApi(p, u, a, NoHeaders)

SpecMarket == InitMarket /\ [][NextMarket]_vars

\* -------------------------------------------------- RateLimitMiddleware
\* variant: a request exactly one minute old still counts
CleanOld_KeepsBoundary(times, current_time) ==
    SelectSeq(times, LAMBDA req_time : current_time - req_time <= Window)

\* "Clean old requests": [req_time for req_time in self.requests[client_ip]
\* if current_time - req_time < 60]
CleanOld(times, current_time) ==
    SelectSeq(times, LAMBDA req_time : current_time - req_time < Window)

\* RateLimitMiddleware.dispatch up to the answer.  Nothing is awaited
\* between the reading of the clock and the append, so the bookkeeping of
\* one request is one step; call_next hands the request to the application,
\* whose answer is taken as 200.
dispatch(client_ip) ==
    LET current_time == now
        known == client_ip \in DOMAIN requests
        cleaned == IF known
                   THEN [requests EXCEPT ![client_ip] = CleanOld(@, current_time)]
                   ELSE requests
    IN /\ IF known /\ Len(cleaned[client_ip]) >= calls_per_minute
          THEN /\ requests' = cleaned
               /\ forwarded' = forwarded
               /\ response' = [client_ip |-> client_ip,
                               status_code |-> HTTP_429_TOO_MANY_REQUESTS,
                               current_time |-> current_time]
          ELSE /\ requests' =
                     IF known
                     THEN [cleaned EXCEPT ![client_ip] = Append(@, current_time)]
                     ELSE (client_ip :> <<current_time>>) @@ cleaned
               /\ forwarded' = [forwarded EXCEPT ![client_ip] = Append(@, current_time)]
               /\ response' = [client_ip |-> client_ip,
                               status_code |-> HTTP_200_OK,
                               current_time |-> current_time]
       /\ now' = now
       /\ UNCHANGED <<apis, users, api_usage, usage_logs, calls>>
       /\ UNCHANGED <<publishVars, billingVars>>

\* time passes
Tick ==
    /\ now < MaxTime
    /\ now' = now + TimeStep
    /\ UNCHANGED <<requests, forwarded, response>>
    /\ UNCHANGED <<apis, users, api_usage, usage_logs, calls>>
    /\ UNCHANGED <<publishVars, billingVars>>

\* the middleware alone, in front of an application that answers
InitRateLimit ==
    /\ apis = <<>>
    /\ users = [u \in Users |-> [current_tier |-> "free"]]
    /\ api_usage = <<>>
    /\ usage_logs = <<>>
    /\ calls = [p \in Procs |-> IdleCall]
    /\ PublishIdle
    /\ LimiterIdle
    /\ BillingIdle

NextRateLimit ==
    \/ \E client_ip \in ClientIps : dispatch(client_ip)
    \/ Tick

SpecRateLimit == InitRateLimit /\ [][NextRateLimit]_vars

\* ------------------------------------------------------------- billing
\* select(Subscription).where(user_id == u, status == "active")
ActiveRows(u) ==
    {i \in DOMAIN subscriptions :
        subscriptions[i].user_id = u /\ subscriptions[i].status = "active"}

\* Subscription(user_id, tier_id, ...): status takes the default "active"
NewSubscription(u, tier_id) ==
    [user_id |-> u, tier_id |-> tier_id, status |-> "active"]

\* billing requests are numbered in the order in which they arrive
BillingArrived(r) == IF r = 1 THEN TRUE ELSE billing[r - 1].pc # "idle"

\* the request ends with an answer
Answer(b, code) == [b EXCEPT !.pc = "done", !.status_code = code]

\* "current_user.current_tier = ...; await db.commit()": the flush emits an
\* UPDATE of the column only when the value differs from the one loaded by
\* get_current_user
SetCurrentTier(u, loaded_tier, tier) ==
    IF tier # loaded_tier
    THEN [users EXCEPT ![u].current_tier = tier]
    ELSE users

\* POST /subscribe from its start to the first "await db.commit()":
\* get_current_user, the SELECT of the tier (404), the SELECT of the active
\* subscription of the user (400 when there is one; scalar_one_or_none
\* raises when there are several)
create_subscription(r, u, tier_id) ==
    /\ billing[r].pc = "idle"
    /\ BillingArrived(r)
    /\ LET b == [billing[r] EXCEPT !.kind = "subscribe", !.user_id = u,
                                   !.tier_id = tier_id,
                                   !.loaded_tier = users[u].current_tier]
       IN billing' = [billing EXCEPT ![r] =
            IF tier_id \notin DOMAIN subscription_tiers
            THEN Answer(b, HTTP_404_NOT_FOUND)
            ELSE IF Cardinality(ActiveRows(u)) > 1
            THEN Answer(b, HTTP_500_INTERNAL_SERVER_ERROR)
            ELSE IF ActiveRows(u) # {}
            THEN Answer(b, HTTP_400_BAD_REQUEST)
            ELSE [b EXCEPT !.pc = "insert"]]
    /\ UNCHANGED <<subscriptions, apis, users, api_usage, usage_logs, calls>>
    /\ UNCHANGED <<publishVars, limiterVars>>

\* the first commit of POST /subscribe: the INSERT of the subscription
CommitSubscription(r) ==
    /\ billing[r].pc = "insert"
    /\ subscriptions' = Append(subscriptions,
                               NewSubscription(billing[r].user_id, billing[r].tier_id))
    /\ billing' = [billing EXCEPT ![r].pc = "tier", ![r].row = Len(subscriptions) + 1]
    /\ UNCHANGED <<apis, users, api_usage, usage_logs, calls>>
    /\ UNCHANGED <<publishVars, limiterVars>>

\* the second commit of POST /subscribe: current_tier = tier.name
CommitTier(r) ==
    /\ billing[r].pc = "tier"
    /\ users' = SetCurrentTier(billing[r].user_id, billing[r].loaded_tier,
                               subscription_tiers[billing[r].tier_id])
    /\ billing' = [billing EXCEPT ![r] = Answer(@, HTTP_200_OK)]
    /\ UNCHANGED <<subscriptions, apis, api_usage, usage_logs, calls>>
    /\ UNCHANGED <<publishVars, limiterVars>>

\* "await db.commit()" or "await db.refresh()" raises (the connection to
\* the database is lost, the server stops): the request ends with 500 and
\* what earlier commits of the request stored stays stored
BillingFailure(r) ==
    /\ billing[r].pc \in {"insert", "tier", "cancel"}
    /\ billing' = [billing EXCEPT ![r] = Answer(@, HTTP_500_INTERNAL_SERVER_ERROR)]
    /\ UNCHANGED <<subscriptions, apis, users, api_usage, usage_logs, calls>>
    /\ UNCHANGED <<publishVars, limiterVars>>

\* POST /subscription/cancel up to its commit: the SELECT of the active
\* subscription of the user (404 when there is none)
cancel_subscription(r, u) ==
    /\ billing[r].pc = "idle"
    /\ BillingArrived(r)
    /\ LET b == [billing[r] EXCEPT !.kind = "cancel", !.user_id = u,
                                   !.loaded_tier = users[u].current_tier]
       IN billing' = [billing EXCEPT ![r] =
            IF Cardinality(ActiveRows(u)) > 1
            THEN Answer(b, HTTP_500_INTERNAL_SERVER_ERROR)
            ELSE IF ActiveRows(u) = {}
            THEN Answer(b, HTTP_404_NOT_FOUND)
            ELSE [b EXCEPT !.pc = "cancel",
                           !.row = CHOOSE i \in ActiveRows(u) : TRUE]]
    /\ UNCHANGED <<subscriptions, apis, users, api_usage, usage_logs, calls>>
    /\ UNCHANGED <<publishVars, limiterVars>>

\* the commit of POST /subscription/cancel: status = "cancelled" and
\* current_tier = "free" in one transaction
CommitCancel(r) ==
    /\ billing[r].pc = "cancel"
    /\ subscriptions' = [subscriptions EXCEPT ![billing[r].row].status = "cancelled"]
    /\ users' = SetCurrentTier(billing[r].user_id, billing[r].loaded_tier, "free")
    /\ billing' = [billing EXCEPT ![r] = Answer(@, HTTP_200_OK)]
    /\ UNCHANGED <<apis, api_usage, usage_logs, calls>>
    /\ UNCHANGED <<publishVars, limiterVars>>

\* BillingService.create_subscription up to the SELECT of
\* cancel_user_subscription: scalar_one() raises when the tier is not
\* stored, scalar_one_or_none() when several subscriptions are active
BillingService_create_subscription(r, u, tier_id) ==
    /\ billing[r].pc = "idle"
    /\ BillingArrived(r)
    /\ LET b == [billing[r] EXCEPT !.kind = "service", !.user_id = u,
                                   !.tier_id = tier_id]
       IN billing' = [billing EXCEPT ![r] =
            IF tier_id \notin DOMAIN subscription_tiers
            THEN Answer(b, HTTP_500_INTERNAL_SERVER_ERROR)
            ELSE IF Cardinality(ActiveRows(u)) > 1
            THEN Answer(b, HTTP_500_INTERNAL_SERVER_ERROR)
            ELSE IF ActiveRows(u) = {}
            THEN [b EXCEPT !.pc = "service_add"]
            ELSE [b EXCEPT !.pc = "service_cancel",
                           !.row = CHOOSE i \in ActiveRows(u) : TRUE]]
    /\ UNCHANGED <<subscriptions, apis, users, api_usage, usage_logs, calls>>
    /\ UNCHANGED <<publishVars, limiterVars>>

\* BillingService.cancel_user_subscription: status = "cancelled", commit
cancel_user_subscription(r) ==
    /\ billing[r].pc = "service_cancel"
    /\ subscriptions' = [subscriptions EXCEPT ![billing[r].row].status = "cancelled"]
    /\ billing' = [billing EXCEPT ![r].pc = "service_add"]
    /\ UNCHANGED <<apis, users, api_usage, usage_logs, calls>>
    /\ UNCHANGED <<publishVars, limiterVars>>

\* BillingService.create_subscription: the new active subscription, commit
CommitServiceSubscription(r) ==
    /\ billing[r].pc = "service_add"
    /\ subscriptions' = Append(subscriptions,
                               NewSubscription(billing[r].user_id, billing[r].tier_id))
    /\ billing' = [billing EXCEPT ![r] = Answer(@, HTTP_200_OK)]
    /\ UNCHANGED <<apis, users, api_usage, usage_logs, calls>>
    /\ UNCHANGED <<publishVars, limiterVars>>

\* new users (current_tier takes the default "free"), no subscription
InitBilling ==
    /\ apis = <<>>
    /\ users = [u \in Users |-> [current_tier |-> "free"]]
    /\ api_usage = <<>>
    /\ usage_logs = <<>>
    /\ calls = [p \in Procs |-> IdleCall]
    /\ PublishIdle
    /\ LimiterIdle
    /\ BillingIdle

NextBilling ==
    \/ \E r \in BillingReqs, u \in Users, t \in TierIds : create_subscription(r, u, t)
    \/ \E r \in BillingReqs : CommitSubscription(r)
    \/ \E r \in BillingReqs : CommitTier(r)
    \/ \E r \in BillingReqs : BillingFailure(r)
    \/ \E r \in BillingReqs, u \in Users : cancel_subscription(r, u)
    \/ \E r \in BillingReqs : CommitCancel(r)
    \/ \E r \in BillingReqs, u \in Users, t \in TierIds :
          BillingService_create_subscription(r, u, t)
    \/ \E r \in BillingReqs : cancel_user_subscription(r)
    \/ \E r \in BillingReqs : CommitServiceSubscription(r)

SpecBilling == InitBilling /\ [][NextBilling]_vars

\* --------------------------------------------- a client that goes away
\* The calling client closes its connection while the handler awaits the
\* upstream.  The handler never looks at the connection (it does not call
\* request.is_disconnected()) and the server the application starts
\* (uvicorn.run, src/app/main.py:90) does not cancel the task of a request
\* whose client has gone, so the handler goes on exactly as for a connected
\* client; the flag only records that the disconnect happened.
ClientDisconnect(p) ==
    /\ calls[p].pc = "upstream"
    /\ ~calls[p].disconnected
    /\ calls' = [calls EXCEPT ![p].disconnected = TRUE]
    /\ UNCHANGED <<apis, users, api_usage, usage_logs>>
    /\ UNCHANGED <<publishVars, limiterVars, billingVars>>

\* requests one at a time, a store that accepts every commit, and clients
\* that may disconnect
NextDisconnect ==
    \/ \E p \in Procs, u \in Users, a \in ApiIds :
          NoneInFlight /\ CallApi(p, u, a, NoHeaders)
    \/ \E p \in Procs : ClientDisconnect(p)
    \/ \E p \in Procs, s \in StatusCodes, b \in Bodies : UpstreamResponse(p, s, b)
    \/ \E p \in Procs : UpstreamTimeout(p)
    \/ \E p \in Procs : UpstreamRequestError(p)

SpecDisconnect == Init /\ [][NextDisconnect]_vars

TypeOK ==
    /\ \A p \in Procs : calls[p].pc \in {"idle", "upstream", "done"}
    /\ \A i \in 1..Len(api_usage) : api_usage[i].calls_this_month >= 0

\* ================================================================ claims
Started(p) == calls[p].pc # "idle"
Dispatched(p) == calls[p].request_id # 0
Succeeded(p) == calls[p].outcome = HTTP_200_OK

\* the successful calls of a pair
OkCalls(u, a) ==
    {p \in Procs : Succeeded(p) /\ calls[p].user_id = u /\ calls[p].api_id = a}

\* the stored audit records of a request
LogsOf(p) ==
    {i \in 1..Len(usage_logs) : usage_logs[i].request_id = calls[p].request_id}

RECURSIVE SumCallsTotal(_)
SumCallsTotal(s) == IF s = <<>> THEN 0 ELSE s[1].calls_total + SumCallsTotal(Tail(s))

RECURSIVE SumCostTotal(_)
SumCostTotal(s) == IF s = <<>> THEN 0 ELSE s[1].cost_total + SumCostTotal(Tail(s))

TablesUnchanged == api_usage' = api_usage /\ usage_logs' = usage_logs

\* ---------------------------------------------------------------- C1
\* C1: among the successful calls of one premium consumer to one API that
\* all started from a counter with exactly one free call left
\* (calls_this_month = free_calls_per_month - 1), exactly one is recorded
\* as free and every other one as paid at price_per_call.
AtQuotaEdge(u, a) ==
    {p \in OkCalls(u, a) :
        /\ is_premium(calls[p].tier)
        /\ calls[p].usage.calls_this_month = apis[a].free_calls_per_month - 1}

RecordedFree(p) == \E i \in LogsOf(p) : usage_logs[i].was_free /\ usage_logs[i].cost = 0

RecordedPaid(p, a) ==
    \E i \in LogsOf(p) :
        ~usage_logs[i].was_free /\ usage_logs[i].cost = apis[a].price_per_call

C1_ExactlyOneFreeAtQuotaEdge ==
    \A u \in Users, a \in DOMAIN apis :
        LET S == AtQuotaEdge(u, a) IN
        Cardinality(S) >= 2 =>
            \E p \in S : /\ RecordedFree(p)
                         /\ \A q \in S \ {p} : RecordedPaid(q, a)

\* ---------------------------------------------------------------- C2
\* C2: for every (consumer, API) pair, calls_total of the pair equals the
\* number of stored audit records of the pair and cost_total equals the sum
\* of their costs (the counters of the pair are summed over its rows, the
\* reading most favourable to the code when a pair has more than one row).
C2_CounterMatchesLog ==
    \A u \in Users, a \in ApiIds :
        /\ SumCallsTotal(SelectPair(api_usage, u, a))
              = Len(SelectPair(usage_logs, u, a))
        /\ SumCostTotal(SelectPair(api_usage, u, a))
              = SumCost(SelectPair(usage_logs, u, a))

\* ---------------------------------------------------------------- C3
\* C3: every finished call whose upstream request was dispatched (answered,
\* timed out or failed in transport) has exactly one stored audit record.
C3_ExactlyOneAuditRecord ==
    \A p \in Procs :
        (calls[p].pc = "done" /\ Dispatched(p)) => Cardinality(LogsOf(p)) = 1

\* ---------------------------------------------------------------- C4
\* C4: requests served one after another, from no usage row: while the
\* calls of a pair that reached their commit are N successful ones, with N
\* at most free_calls_per_month, the pair has one usage row with calls_this_month = N and cost_total = 0,
\* and each of the N calls was answered and recorded as free with cost 0.
\* a call that failed after its commit (the response could not be returned)
Crashed(u, a) ==
    {p \in Procs : /\ calls[p].user_id = u /\ calls[p].api_id = a
                   /\ calls[p].outcome = HTTP_500_INTERNAL_SERVER_ERROR
                   /\ Dispatched(p)}

FreeCall(p) ==
    /\ calls[p].result.was_free /\ calls[p].result.cost = 0
    /\ Cardinality(LogsOf(p)) = 1
    /\ \A i \in LogsOf(p) : usage_logs[i].was_free /\ usage_logs[i].cost = 0

C4_FreeQuotaSequential ==
    \A u \in Users, a \in DOMAIN apis :
        LET N == Cardinality(OkCalls(u, a))
            rows == SelectPair(api_usage, u, a)
        IN (N >= 1 /\ N <= apis[a].free_calls_per_month /\ Crashed(u, a) = {}) =>
              /\ Len(rows) = 1
              /\ rows[1].calls_this_month = N
              /\ rows[1].cost_total = 0
              /\ \A p \in OkCalls(u, a) : FreeCall(p)

\* the free quota of MaxFree calls has been used up exactly
C4_Witness ==
    \E u \in Users, a \in DOMAIN apis :
        /\ apis[a].free_calls_per_month = MaxFree
        /\ Cardinality(OkCalls(u, a)) = MaxFree
        /\ \E i \in UsageRowsOf(u, a) :
              api_usage[i].calls_this_month = MaxFree /\ api_usage[i].cost_total = 0

\* ---------------------------------------------------------------- C5
\* C5: requests served one after another, from no usage row, the calls of a
\* pair that reached their commit all being successful: the k-th
\* successful call of the pair with k > free_calls_per_month is answered and
\* recorded with cost = price_per_call and was_free = FALSE, and once the
\* number N of successful calls exceeds the quota the row of the pair has
\* calls_this_month = N and
\* cost_this_month = (N - free_calls_per_month) * price_per_call.
Rank(p, u, a) == Cardinality({q \in OkCalls(u, a) : q <= p})

PaidCall(p, a) ==
    /\ ~calls[p].result.was_free
    /\ calls[p].result.cost = apis[a].price_per_call
    /\ Cardinality(LogsOf(p)) = 1
    /\ \A i \in LogsOf(p) :
          ~usage_logs[i].was_free /\ usage_logs[i].cost = apis[a].price_per_call

C5_PaidBeyondQuotaSequential ==
    \A u \in Users, a \in DOMAIN apis :
        LET N == Cardinality(OkCalls(u, a))
            free == apis[a].free_calls_per_month
            rows == SelectPair(api_usage, u, a)
        IN Crashed(u, a) = {} =>
           /\ \A p \in OkCalls(u, a) : Rank(p, u, a) > free => PaidCall(p, a)
           /\ N > free =>
                /\ Len(rows) = 1
                /\ rows[1].calls_this_month = N
                /\ rows[1].cost_this_month = (N - free) * apis[a].price_per_call

\* price 50, quota 2: the third call costs 50 and leaves 3 calls and cost 50
C5_Witness ==
    \E u \in Users, a \in DOMAIN apis, p \in Procs :
        /\ apis[a].free_calls_per_month = 2 /\ apis[a].price_per_call = 50
        /\ p \in OkCalls(u, a) /\ Rank(p, u, a) = 3
        /\ calls[p].result.cost = 50 /\ ~calls[p].result.was_free
        /\ \E i \in UsageRowsOf(u, a) :
              api_usage[i].calls_this_month = 3 /\ api_usage[i].cost_this_month = 50

\* ---------------------------------------------------------------- C6
\* C6: whenever a call passes the API and access checks for a consumer
\* without paid standing while every counter stored for the pair (0 when the
\* pair has no row) is at or above free_calls_per_month, the call ends with 402,
\* no upstream request is dispatched and the stored tables do not change.
PairOverQuota(u, a) ==
    /\ UsageRowsOf(u, a) = {} => 0 >= apis[a].free_calls_per_month
    /\ \A i \in UsageRowsOf(u, a) :
          api_usage[i].calls_this_month >= apis[a].free_calls_per_month

C6_QuotaExhaustedRefused ==
    [][\A p \in Procs :
          ( /\ calls[p].pc = "idle" /\ calls'[p].pc # "idle"
            /\ CheckApi(calls'[p].api_id, calls'[p].user_id) = 0
            /\ ~is_premium(users[calls'[p].user_id].current_tier)
            /\ PairOverQuota(calls'[p].user_id, calls'[p].api_id) )
          => /\ calls'[p].outcome = HTTP_402_PAYMENT_REQUIRED
             /\ calls'[p].request_id = 0
             /\ TablesUnchanged]_vars

\* ---------------------------------------------------------------- C7
\* C7: a call to an active, published, private API by a user who is not
\* its owner ends at once with 403, whatever the tier of the caller and the
\* quota of the API; no upstream request is dispatched and the stored
\* tables do not change.
PrivateForeign(a, u) ==
    FindPublishedApi(a) /\ ~apis[a].is_public /\ apis[a].owner_id # u

C7_PrivateApiForbidden ==
    [][\A p \in Procs :
          ( /\ calls[p].pc = "idle" /\ calls'[p].pc # "idle"
            /\ PrivateForeign(calls'[p].api_id, calls'[p].user_id) )
          => /\ calls'[p].pc = "done"
             /\ calls'[p].outcome = HTTP_403_FORBIDDEN
             /\ calls'[p].request_id = 0
             /\ TablesUnchanged]_vars

\* a premium non-owner was refused on a private API whose quota (0 free
\* calls) is exhausted from the first call on
C7_Witness ==
    \E p \in Procs :
        /\ calls[p].outcome = HTTP_403_FORBIDDEN
        /\ is_premium(calls[p].tier)
        /\ apis[calls[p].api_id].free_calls_per_month = 0
        /\ api_usage = <<>> /\ usage_logs = <<>>

\* ---------------------------------------------------------------- C8
\* C8: the outcome of a call follows the order of the checks: 404 exactly
\* when the API is missing, inactive or unpublished; 403 exactly when it is
\* found, private and the caller is not the owner; 402 only when both
\* checks passed, the caller has no paid standing and the counter the call
\* loaded is at or above the quota.
OverQuota(p) ==
    calls[p].usage.calls_this_month >= apis[calls[p].api_id].free_calls_per_month

C8_PreconditionOrder ==
    \A p \in Procs :
        Started(p) =>
            LET a == calls[p].api_id
                u == calls[p].user_id
                o == calls[p].outcome
            IN /\ (o = HTTP_404_NOT_FOUND) <=> ~FindPublishedApi(a)
               /\ (o = HTTP_403_FORBIDDEN) <=> PrivateForeign(a, u)
               /\ (o = HTTP_402_PAYMENT_REQUIRED) =>
                     /\ FindPublishedApi(a) /\ ~PrivateForeign(a, u)
                     /\ ~is_premium(calls[p].tier) /\ OverQuota(p)

\* not-found reported for a stored but inactive or unpublished API although
\* the caller would also be forbidden and over quota
C8_Witness ==
    \E p \in Procs :
        LET a == calls[p].api_id IN
        /\ calls[p].outcome = HTTP_404_NOT_FOUND
        /\ a \in DOMAIN apis
        /\ ~apis[a].is_public /\ apis[a].owner_id # calls[p].user_id
        /\ ~is_premium(calls[p].tier)
        /\ apis[a].free_calls_per_month = 0

\* ---------------------------------------------------------------- C9
\* C9: the steps of a call that ends with 504 (timeout) or 502 (transport
\* failure), the dispatch of its request and its failure, store nothing: the four counters of
\* every usage row stay as they are and the usage row the call created
\* lazily is not stored.
C9_NoChargeOnUpstreamFailure ==
    [][\A p \in Procs :
          ( /\ calls[p].pc \in {"idle", "upstream"} /\ calls'[p] # calls[p]
            /\ calls'[p].outcome \in
                  {0, HTTP_504_GATEWAY_TIMEOUT, HTTP_502_BAD_GATEWAY} )
          => TablesUnchanged]_vars

\* a first call of a pair timed out or failed and the pair has no row
C9_Witness ==
    \E p \in Procs :
        /\ calls[p].outcome \in {HTTP_504_GATEWAY_TIMEOUT, HTTP_502_BAD_GATEWAY}
        /\ calls[p].row = 0
        /\ UsageRowsOf(calls[p].user_id, calls[p].api_id) = {}

\* ---------------------------------------------------------------- C10
\* C10: whatever status code and body the upstream answers with, the call
\* is a success (outward 200) whose result carries that status code; it
\* appends exactly one audit record with that code, writes the counters it
\* loaded plus one, and charges price_per_call when the loaded
\* calls_this_month is at or above free_calls_per_month and 0 otherwise.
QuotaCost(p) ==
    IF OverQuota(p) THEN apis[calls[p].api_id].price_per_call ELSE 0

WrittenRow(p) ==
    IF calls[p].row = 0 THEN api_usage'[Len(api_usage')] ELSE api_usage'[calls[p].row]

AnsweredInThisStep(p) ==
    calls[p].pc = "upstream" /\ Len(usage_logs') = Len(usage_logs) + 1
        /\ calls'[p] # calls[p]

C11_OneUsageRowPerPair ==
    \A u \in Users, a \in ApiIds : Cardinality(UsageRowsOf(u, a)) <= 1

\* ---------------------------------------------------------------- C12
\* C12: no step lowers calls_total or cost_total of a stored usage row, and
\* the step in which a call succeeds leaves calls_total of its row exactly
\* one above the value stored before the step (0 for a row it creates).
TotalsNeverLower ==
    \A i \in 1..Len(api_usage) :
        /\ i <= Len(api_usage')
        /\ api_usage'[i].calls_total >= api_usage[i].calls_total
        /\ api_usage'[i].cost_total >= api_usage[i].cost_total

StoredCallsTotal(p) ==
    IF calls[p].row = 0 THEN 0 ELSE api_usage[calls[p].row].calls_total

SucceedsInThisStep(p) ==
    calls[p].pc = "upstream" /\ calls'[p].outcome = HTTP_200_OK

C12_TotalsMonotonic ==
    [][/\ TotalsNeverLower
       /\ \A p \in Procs :
             SucceedsInThisStep(p) =>
                 WrittenRow(p).calls_total = StoredCallsTotal(p) + 1]_vars

C14_AuditLogAppendOnly ==
    [][/\ Len(usage_logs') >= Len(usage_logs)
       /\ \A i \in 1..Len(usage_logs) : usage_logs'[i] = usage_logs[i]]_vars

\* three records of one pair are stored, the first still being the one of
\* the first answered call of the pair
C14_Witness ==
    /\ Len(usage_logs) = 3
    /\ \A i \in 1..3 : usage_logs[i].user_id = usage_logs[1].user_id
    /\ \E p \in Procs : /\ usage_logs[1].request_id = calls[p].request_id
                         /\ calls[p].usage.calls_total = 0

\* ---------------------------------------------------------------- C15
\* C15: in the step in which a call succeeds, exactly one audit record is
\* appended; cost, was_free and request_id of the answer equal those of
\* that record; and that same cost is the amount the call adds to
\* cost_this_month and to cost_total: the row it writes holds the values it
\* loaded plus the cost (a cost of 0 leaves the stored values as they are),
\* so that the stored values rise by exactly the cost whenever the stored
\* row is still the one the call loaded.
StoredCosts(p) ==
    IF calls[p].row = 0
    THEN [month |-> 0, total |-> 0]
    ELSE [month |-> api_usage[calls[p].row].cost_this_month,
          total |-> api_usage[calls[p].row].cost_total]

LoadedRowStillStored(p) ==
    calls[p].row = 0 \/ api_usage[calls[p].row] = calls[p].usage

CounterStored(p) ==
    IF calls[p].row = 0
    THEN /\ Len(api_usage') = Len(api_usage) + 1
         /\ api_usage'[Len(api_usage')].user_id = calls[p].user_id
         /\ api_usage'[Len(api_usage')].calls_total = 1
    ELSE /\ Len(api_usage') = Len(api_usage)
         /\ api_usage'[calls[p].row].calls_total = calls[p].usage.calls_total + 1

EndsInThisStep(p) == calls[p].pc = "upstream" /\ calls'[p].pc = "done"

C16_LedgerWriteAtomic ==
    [][/\ usage_logs' # usage_logs =>
             \E p \in Procs :
                 /\ EndsInThisStep(p)
                 /\ usage_logs' = Append(usage_logs, usage_logs'[Len(usage_logs')])
                 /\ usage_logs'[Len(usage_logs')].request_id = calls[p].request_id
                 /\ CounterStored(p)
       /\ api_usage' # api_usage => Len(usage_logs') = Len(usage_logs) + 1
       /\ \A p \in Procs :
             (EndsInThisStep(p) /\ usage_logs' = usage_logs) =>
                 /\ calls'[p].outcome # HTTP_200_OK
                 /\ calls'[p].result = NoResult
                 /\ api_usage' = api_usage]_vars

\* the commit of the first call of a pair raised: the caller was answered
\* 500, and neither a usage row nor an audit record of the pair is stored
C16_Witness ==
    \E p \in Procs :
        /\ calls[p].outcome = HTTP_500_INTERNAL_SERVER_ERROR
        /\ Dispatched(p)
        /\ LogsOf(p) = {}
        /\ UsageRowsOf(calls[p].user_id, calls[p].api_id) = {}
        /\ SelectPair(usage_logs, calls[p].user_id, calls[p].api_id) = <<>>

\* ---------------------------------------------------------------- C17
\* C17: every call whose client disconnected after the upstream request
\* was dispatched and before the upstream completed is carried to its end
\* with its outcome recorded: once the call is finished, its audit record
\* is stored and the usage row of the pair carries its counter update.
C17_DisconnectStillRecorded ==
    \A p \in Procs :
        (calls[p].pc = "done" /\ calls[p].disconnected) =>
            /\ Cardinality(LogsOf(p)) = 1
            /\ \E i \in UsageRowsOf(calls[p].user_id, calls[p].api_id) :
                  api_usage[i].calls_total >= calls[p].usage.calls_total + 1

\* ---------------------------------------------------------------- C18
\* C18: the tier policy is monotonic along free < builder < pro <
\* enterprise: a higher tier has at least the rate limit of a lower one and
\* may publish with n owned APIs whenever the lower one may, for every n;
\* enterprise may publish with every n.  Stated for every pair of tiers and
\* every n up to MaxApis, and so for the users and owned APIs of every
\* reachable state.
TierRank(tier) ==
    CASE tier = "free" -> 1 [] tier = "builder" -> 2
      [] tier = "pro" -> 3 [] tier = "enterprise" -> 4

C18_TierPolicyMonotonic ==
    /\ \A t1 \in AllTiers, t2 \in AllTiers :
          TierRank(t1) < TierRank(t2) =>
             /\ get_rate_limit(t2) >= get_rate_limit(t1)
             /\ \A n \in 0..MaxApis :
                   can_publish_apis(t1, n) => can_publish_apis(t2, n)
    /\ \A n \in 0..MaxApis : can_publish_apis("enterprise", n)
    /\ \A u1 \in Users, u2 \in Users :
          ( /\ TierRank(users[u1].current_tier) < TierRank(users[u2].current_tier)
            /\ can_publish_apis(users[u1].current_tier, OwnedApis(u1)) )
          => can_publish_apis(users[u2].current_tier, OwnedApis(u1))

\* a pro user has published ten APIs and may publish no more, where an
\* enterprise user still may and a builder was stopped at three
C18_Witness ==
    \E u \in Users :
        /\ users[u].current_tier = "pro"
        /\ OwnedApis(u) = 10
        /\ ~can_publish_apis("pro", OwnedApis(u))
        /\ can_publish_apis("enterprise", OwnedApis(u))
        /\ ~can_publish_apis("builder", 3) /\ can_publish_apis("pro", 3)

\* ---------------------------------------------------------------- C19
\* C19: the headers of every dispatched upstream request: when the scheme
\* of the API is api_key and a key is configured, the configured header
\* name (Authorization when none is configured) carries the configured key,
\* whatever the caller sent under that name; and when the scheme is not
\* none, no credential header carries a value the caller supplied.
C19_UpstreamCredentials ==
    \A p \in Procs :
        Dispatched(p) =>
            LET api == apis[calls[p].api_id]
                cfg == api.auth_config
            IN /\ (api.auth_type = "api_key" /\ cfg.api_key # None) =>
                      calls[p].headers[Get(cfg, "header_name", "Authorization")]
                          = cfg.api_key
               /\ api.auth_type # "none" =>
                      \A n \in HeaderNames : calls[p].headers[n] # "caller_secret"

\* ---------------------------------------------------------------- C20
\* C20: every call that ends with the gateway-timeout or the bad-gateway
\* error, both raised after the request id was generated, is answered with
\* an error that has a message and carries the request id of the call.
CarriesRequestId(e, id) ==
    "request_id" \in DOMAIN e /\ e.request_id = id

C20_ErrorCarriesRequestId ==
    \A p \in Procs :
        calls[p].outcome \in {HTTP_504_GATEWAY_TIMEOUT, HTTP_502_BAD_GATEWAY} =>
            /\ Dispatched(p)
            /\ calls[p].error.detail # ""
            /\ CarriesRequestId(calls[p].error, calls[p].request_id)

\* ---------------------------------------------------------------- C21
\* C21: for a consumer on the free tier the number of recorded calls to an
\* API never exceeds free_calls_per_month of that API, in every
\* interleaving of the calls of the pair.
C21_FreeQuotaNeverExceeded ==
    \A u \in Users, a \in DOMAIN apis :
        ~is_premium(users[u].current_tier) =>
            Len(SelectPair(usage_logs, u, a)) <= apis[a].free_calls_per_month

\* ---------------------------------------------------------------- C24
PaidTiers == {"builder", "pro", "enterprise"}

\* C24: every audit record with was_free = FALSE belongs to a call whose
\* consumer had a paid tier (builder, pro, enterprise) when its quota check
\* ran; and for a consumer on the free tier every audit record has cost 0
\* and was_free = TRUE and every usage row has cost_this_month = 0 and
\* cost_total = 0, in every interleaving.
C24_ChargedOnlyWithPaidStanding ==
    /\ \A i \in 1..Len(usage_logs) :
          ~usage_logs[i].was_free =>
              \E p \in Procs : /\ calls[p].request_id = usage_logs[i].request_id
                               /\ calls[p].user_id = usage_logs[i].user_id
                               /\ calls[p].tier \in PaidTiers
    /\ \A u \in Users :
          users[u].current_tier \notin PaidTiers =>
             /\ \A i \in 1..Len(usage_logs) :
                   usage_logs[i].user_id = u =>
                       usage_logs[i].cost = 0 /\ usage_logs[i].was_free
             /\ \A i \in 1..Len(api_usage) :
                   api_usage[i].user_id = u =>
                       api_usage[i].cost_this_month = 0 /\ api_usage[i].cost_total = 0

\* a free-tier consumer has a recorded call, without charge, while a call
\* of a consumer with a paid tier was recorded as paid
C24_Witness ==
    \E u \in Users, v \in Users :
        /\ users[u].current_tier \notin PaidTiers
        /\ users[v].current_tier \in PaidTiers
        /\ Len(SelectPair(usage_logs, u, 1)) = 1
        /\ \E i \in 1..Len(usage_logs) :
              usage_logs[i].user_id = v /\ ~usage_logs[i].was_free
                  /\ usage_logs[i].cost > 0

\* ---------------------------------------------------------------- C25
\* C25: in every reachable state every stored usage row has
\* calls_this_month = calls_total and cost_this_month = cost_total.
C25_MonthEqualsTotal ==
    \A i \in 1..Len(api_usage) :
        /\ api_usage[i].calls_this_month = api_usage[i].calls_total
        /\ api_usage[i].cost_this_month = api_usage[i].cost_total

\* a row that lost an update (three recorded calls of the pair, two
\* counted) and carries a charge still has equal monthly and total fields
C25_Witness ==
    \E i \in 1..Len(api_usage) :
        /\ api_usage[i].calls_total = 2
        /\ api_usage[i].calls_this_month = 2
        /\ api_usage[i].cost_total > 0
        /\ Len(SelectPair(usage_logs, api_usage[i].user_id, api_usage[i].api_id)) = 3
        /\ UsageRowsOf(api_usage[i].user_id, api_usage[i].api_id) = {i}

\* ---------------------------------------------------------------- C26
\* C26: for every stored audit record, whatever the API's auth scheme and
\* whatever headers the caller sent, request_headers are exactly the headers
\* of the call request as the caller sent them, and no value in them is the
\* api_key of the API's auth_config.
C26_SecretNotLogged ==
    \A p \in Procs : \A i \in LogsOf(p) :
        Dispatched(p) =>
            /\ usage_logs[i].request_headers = calls[p].body_headers
            /\ \A n \in HeaderNames :
                  \/ usage_logs[i].request_headers[n] = None
                  \/ usage_logs[i].request_headers[n] #
                         apis[calls[p].api_id].auth_config.api_key

\* ---------------------------------------------------------------- C22
\* the publish quota of the tiers that have one
PublishQuota(tier) ==
    CASE tier = "free" -> 1 [] tier = "builder" -> 3 [] tier = "pro" -> 10

\* C22: in every state a user of the tier free, builder or pro owns at most
\* the quota of the tier (1, 3, 10); every step that stores an API of a user
\* is taken when that user owns fewer APIs than the quota, and a step that
\* answers 403 stores no API; in every interleaving of publish_api requests
\* of users who keep their tier.
C22_PublishQuota ==
    /\ [](\A u \in Users :
            LoadsApis(users[u].current_tier) =>
                OwnedApis(u) <= PublishQuota(users[u].current_tier))
    /\ [][ /\ \A u \in Users :
               (LoadsApis(users[u].current_tier) /\ OwnedApis(u)' > OwnedApis(u))
                   => OwnedApis(u) < PublishQuota(users[u].current_tier)
           /\ (publish_status' = HTTP_403_FORBIDDEN /\ publish_status' # publish_status)
                   => apis' = apis ]_vars

\* ---------------------------------------------------------------- C27
\* C27: in every state reached through publish_api and call_api from an
\* empty table of APIs, every stored API has status draft and is_public
\* false, every call_api request that was answered, for a stored or an
\* unknown API id and for any caller, was answered 404 and none waits for
\* an upstream, and api_usage and usage_logs are empty.
C27_PublishedApisNotCallable ==
    /\ \A i \in DOMAIN apis : apis[i].status = "draft" /\ ~apis[i].is_public
    /\ \A p \in Procs :
          Started(p) =>
              /\ calls[p].pc = "done"
              /\ calls[p].outcome = HTTP_404_NOT_FOUND
              /\ calls[p].error.status_code = HTTP_404_NOT_FOUND
              /\ calls[p].request_id = 0
    /\ api_usage = <<>>
    /\ usage_logs = <<>>

\* the owner of a stored API called it and was answered 404, and so was
\* another user
C27_Witness ==
    \E p \in Procs, q \in Procs :
        /\ calls[p].api_id \in DOMAIN apis
        /\ apis[calls[p].api_id].owner_id = calls[p].user_id
        /\ calls[p].outcome = HTTP_404_NOT_FOUND
        /\ calls[q].api_id = calls[p].api_id
        /\ calls[q].user_id # calls[p].user_id
        /\ calls[q].outcome = HTTP_404_NOT_FOUND

\* ---------------------------------------------------------------- C23
\* the requests of an ip handed to the application less than 60 seconds
\* before time t
RecentForwarded(ip, t) ==
    {i \in DOMAIN forwarded[ip] :
        forwarded[ip][i] <= t /\ t - forwarded[ip][i] < Window}

\* C23: for every client ip, every span of 60 seconds that ends with a
\* request handed to the application holds at most calls_per_minute such
\* requests; a request of an ip that arrives when calls_per_minute requests
\* handed on for that ip are less than 60 seconds old is answered 429, is
\* not handed on and adds no time to the recorded times of the ip; and a
\* request that arrives when fewer are that young is handed on, whatever
\* was rejected before.
C23_RateLimit ==
    /\ [](\A ip \in ClientIps : \A i \in DOMAIN forwarded[ip] :
            Cardinality(RecentForwarded(ip, forwarded[ip][i])) <= calls_per_minute)
    /\ [][ now' = now =>
             LET ip == response'.client_ip
                 full == Cardinality(RecentForwarded(ip, now)) >= calls_per_minute
             IN /\ full =>
                     /\ response'.status_code = HTTP_429_TOO_MANY_REQUESTS
                     /\ forwarded' = forwarded
                     /\ Len(requests'[ip]) <= Len(requests[ip])
                     /\ \A k \in DOMAIN requests'[ip] :
                           \E j \in DOMAIN requests[ip] :
                               requests'[ip][k] = requests[ip][j]
                /\ ~full =>
                     /\ response'.status_code # HTTP_429_TOO_MANY_REQUESTS
                     /\ forwarded' = [forwarded EXCEPT ![ip] = Append(@, now)] ]_vars

\* a client that was admitted calls_per_minute times, rejected, and admitted
\* again after the minute is rejected once more
C23_Witness ==
    /\ response.status_code = HTTP_429_TOO_MANY_REQUESTS
    /\ response.client_ip \in ClientIps
    /\ Len(forwarded[response.client_ip]) > calls_per_minute
    /\ Cardinality(RecentForwarded(response.client_ip, now)) = calls_per_minute

\* ---------------------------------------------------------------- C29
\* C29: in every state every user has at most one subscription with status
\* active, in every interleaving of subscribe, cancel and
\* BillingService.create_subscription requests.
C29_OneActiveSubscription ==
    \A u \in Users : Cardinality(ActiveRows(u)) <= 1

\* ---------------------------------------------------------------- C30
\* a billing request of the user is between two of its steps
BillingUnderWay(u) ==
    \E r \in BillingReqs : billing[r].user_id = u /\ billing[r].pc \notin {"idle", "done"}

\* C30: in every state in which no billing request of a user is under way,
\* the user's current_tier is the name of the tier of their active
\* subscription when they have one and free when they have none.
C30_TierFollowsSubscription ==
    \A u \in Users :
        ~BillingUnderWay(u) =>
            IF ActiveRows(u) = {}
            THEN users[u].current_tier = "free"
            ELSE \A i \in ActiveRows(u) :
                    users[u].current_tier = subscription_tiers[subscriptions[i].tier_id]

\* ---------------------------------------------------------------- C28
\* the tier names a user's current_tier can hold: the four of the tier
\* policy and the names of the stored subscription tiers
TierNames == AllTiers \cup {subscription_tiers[i] : i \in DOMAIN subscription_tiers}

\* C28: for every tier name other than free, builder and pro, enterprise
\* and unlisted names alike, can_publish_apis is true for every number of
\* owned APIs; for every name outside the four listed tiers get_rate_limit
\* is 60, the limit of the free tier, and is_premium is false; and so for
\* the current_tier of every user in every state of the billing requests.
C28_UnknownTierPolicy ==
    /\ \A t \in TierNames :
          /\ t \notin {"free", "builder", "pro"} =>
                \A n \in 0..MaxApis : can_publish_apis(t, n)
          /\ t \notin {"free", "builder", "pro", "enterprise"} =>
                /\ get_rate_limit(t) = 60
                /\ get_rate_limit(t) = get_rate_limit("free")
                /\ ~is_premium(t)
    /\ \A u \in Users :
          LET t == users[u].current_tier IN
          /\ t \in TierNames
          /\ t \notin {"free", "builder", "pro"} =>
                can_publish_apis(t, OwnedApis(u)) /\ can_publish_apis(t, MaxApis)
          /\ t \notin {"free", "builder", "pro", "enterprise"} =>
                get_rate_limit(t) = 60 /\ ~is_premium(t)

\* a user subscribed to a stored tier whose name the policy does not list:
\* they may publish without limit, at the free rate limit, without paid
\* standing
C28_Witness ==
    \E u \in Users :
        /\ users[u].current_tier \notin AllTiers
        /\ ActiveRows(u) # {}
        /\ can_publish_apis(users[u].current_tier, MaxApis)
        /\ get_rate_limit(users[u].current_tier) = 60
        /\ ~is_premium(users[u].current_tier)

====
